---- MODULE Spec2Model ----
(***************************************************************************)
(* Model of ytstream-yt3: the Flask front end (app.py) and the stream      *)
(* orchestrator YouTubeStreamer.start_stream (youtube_streamer.py).        *)
(*                                                                         *)
(* Every POST /start-stream request is a process that walks through the    *)
(* handler and the orchestrator one remote call at a time; the session,    *)
(* the upload folder and the remote platform are shared.                   *)
(***************************************************************************)
EXTENDS Integers, Sequences, FiniteSets, TLC

VARIABLES session, auth, uploads, broadcasts, streams, req

vars == <<session, auth, uploads, broadcasts, streams, req>>

(* ------------------------------ bounds --------------------------------- *)

\* number of POST /start-stream requests the server handles, concurrently
NumRequests == 2

Requests == 1..NumRequests

(* ----------------------------- constants ------------------------------- *)

None == "None"

NoId == <<>>

\* anti-forgery tokens secrets.token_urlsafe can return
States == {"s1", "s2"}

ALLOWED_EXTENSIONS ==
    { <<"m","p","4">>, <<"a","v","i">>, <<"m","k","v">>, <<"m","o","v">> }

\* file names a client can upload, as sequences of characters
Filenames ==
    { <<"a",".","m","p","4">>,
      <<".","b",".","M","K","V">>,
      <<"c",".","e","x","e">>,
      <<"a",".","m","p","4",".","e","x","e">>,
      <<"m","o","v">>,
      <<"a","m","p","4">>,
      <<"a",".">>,
      <<"a",".","a","v","i","x">>,
      <<>> }

(* --------------------------- pure functions ---------------------------- *)

\* str.lower() on one character
LowerChar(c) ==
    CASE c = "A" -> "a" [] c = "B" -> "b" [] c = "C" -> "c" [] c = "E" -> "e"
      [] c = "I" -> "i" [] c = "K" -> "k" [] c = "M" -> "m" [] c = "O" -> "o"
      [] c = "P" -> "p" [] c = "V" -> "v" [] c = "X" -> "x"
      [] OTHER -> c

Lower(s) == [i \in 1..Len(s) |-> LowerChar(s[i])]

\* index of the last "." of s, 0 when there is none
LastDot(s) ==
    IF \E i \in 1..Len(s) : s[i] = "."
    THEN CHOOSE i \in 1..Len(s) :
            /\ s[i] = "."
            /\ \A j \in (i+1)..Len(s) : s[j] # "."
    ELSE 0

\* filename.rsplit('.', 1)[1]
RsplitExt(s) == SubSeq(s, LastDot(s) + 1, Len(s))

\* index of the first "." of s after position i, Len(s) + 1 when there is none
NextDot(s, i) ==
    IF \E j \in (i+1)..Len(s) : s[j] = "."
    THEN CHOOSE j \in (i+1)..Len(s) :
            /\ s[j] = "."
            /\ \A k \in (i+1)..(j-1) : s[k] # "."
    ELSE Len(s) + 1

\* a variant that reads the extension as filename.split('.')[1]
allowed_file_split(filename) ==
    /\ LastDot(filename) # 0
    /\ LET d == NextDot(filename, 0)
       IN  Lower(SubSeq(filename, d + 1, NextDot(filename, d) - 1))
              \in ALLOWED_EXTENSIONS

allowed_file(filename) ==
    /\ LastDot(filename) # 0
    /\ Lower(RsplitExt(filename)) \in ALLOWED_EXTENSIONS

RECURSIVE StripDots(_)
\* the part of werkzeug's secure_filename that acts on these names:
\* leading and trailing dots are stripped
StripDots(s) ==
    IF s = <<>> THEN s
    ELSE IF Head(s) = "." THEN StripDots(Tail(s))
    ELSE IF s[Len(s)] = "." THEN StripDots(SubSeq(s, 1, Len(s) - 1))
    ELSE s

secure_filename(filename) == StripDots(filename)

\* os.path.join(UPLOAD_FOLDER, secure_filename(file.filename))
FilePath(filename) == <<"temp_uploads", secure_filename(filename)>>

Paths == { FilePath(f) : f \in Filenames }


(* ------------------------------ responses ------------------------------ *)

Absent == "absent"

Response(status, success, error_type, broadcast_url) ==
    [status |-> status, success |-> success, error_type |-> error_type,
     broadcast_url |-> broadcast_url]

NoResponse == Response(0, Absent, Absent, NoId)

YouTubeStreamErrors ==
    {"YouTubeStreamError", "AuthenticationError", "BroadcastError",
     "StreamError", "FFmpegError"}

\* the outer handlers of YouTubeStreamer.start_stream: an error of the
\* YouTubeStreamError family is re-raised, any other is wrapped
StartStreamRaise(exc) ==
    IF exc \in YouTubeStreamErrors THEN exc ELSE "YouTubeStreamError"

\* the except clauses of the /start-stream handler
ErrorResponse(exc) ==
    CASE exc = "AuthenticationError" -> Response(401, "false", "auth_error", NoId)
      [] exc = "BroadcastError" -> Response(500, "false", "broadcast_error", NoId)
      [] exc = "StreamError" -> Response(500, "false", "stream_error", NoId)
      [] exc = "FFmpegError" -> Response(500, "false", "ffmpeg_error", NoId)
      [] OTHER -> Response(500, "false", "unknown_error", NoId)

\* f'https://youtube.com/watch?v={broadcast_id}'
BroadcastUrl(broadcast_id) == <<"https://youtube.com/watch?v=", broadcast_id>>

\* the jsonify of the handler's success path
SuccessResponse(result) == Response(200, "true", Absent, result.broadcast_url)

(* ------------------------------- state --------------------------------- *)

NewRequest ==
    [pc |-> "idle", authed |-> FALSE, hasFile |-> FALSE, filename |-> <<>>,
     staged |-> FALSE, exc |-> None, response |-> NoResponse,
     inserted_id |-> NoId, broadcast_id |-> NoId, stream_id |-> NoId,
     stream_url |-> NoId, spawnable |-> FALSE, relay |-> "not_attempted",
     calls |-> <<>>]

\* what the last /auth/* request was and how it was answered
Answer(endpoint, state, exchanged, channel, result) ==
    [endpoint |-> endpoint, state |-> state, exchanged |-> exchanged,
     channel |-> channel, result |-> result]

\* no /auth/* request has been answered yet
NoAnswer == Answer("none", None, FALSE, "none", "none")

\* the answers of the /auth/* endpoints are not recorded
Untraced == Answer("untraced", None, FALSE, "none", "none")

\* a fresh session, an empty upload folder and platform, no request received
InitProgram ==
    /\ session = [youtube_credentials |-> None, oauth_state |-> None]
    /\ uploads = [p \in Paths |-> 0]
    /\ broadcasts = <<>>
    /\ streams = <<>>
    /\ req = [r \in Requests |-> NewRequest]

Init == InitProgram /\ auth = Untraced

\* the same, with the answers of the /auth/* endpoints recorded
InitAuth == InitProgram /\ auth = NoAnswer

\* one remote platform call, as the orchestrator issued it
Call(api, id, arg, ok) == [api |-> api, id |-> id, arg |-> arg, ok |-> ok]

\* the n-th id the platform hands out to the calls of request r
FreshId(r, api) ==
    <<r, 1 + Cardinality({i \in 1..Len(req[r].calls) : req[r].calls[i].api = api})>>

Path(r) == FilePath(req[r].filename)

(* ------------------------- session endpoints --------------------------- *)

ExemptEndpoints == {"youtube_auth", "auth_callback", "home", "health_check"}

\* a variant of the hook that lets every request through to its handler
check_session_open(endpoint) == FALSE

\* before_request hook: TRUE when it answers 401 in place of the handler
check_session(endpoint) ==
    /\ session.youtube_credentials = None
    /\ endpoint \notin ExemptEndpoints

\* the endpoint's answer is recorded, where answers are recorded at all
Answered(answer) == auth' = IF auth = Untraced THEN auth ELSE answer

\* GET /auth/youtube, the client credentials being configured
youtube_auth ==
    /\ \E state \in States :
          /\ session' = [session EXCEPT !.oauth_state = state]
          /\ Answered(Answer("youtube_auth", state, FALSE, "none", "authUrl"))
    /\ UNCHANGED <<uploads, broadcasts, streams, req>>

\* GET /auth/callback?code&state: state check, code check, code exchange
\* (get_credentials), credential stored, then the channel query
auth_callback ==
    /\ \E code \in {None, "code"}, state \in States \cup {None},
          exchange \in BOOLEAN, channel \in {"found", "no_items", "raises"} :
          IF state # session.oauth_state
            THEN /\ UNCHANGED session
                 /\ Answered(Answer("auth_callback", state, FALSE, "none", "invalid_state"))
          ELSE IF code = None
            THEN /\ UNCHANGED session
                 /\ Answered(Answer("auth_callback", state, FALSE, "none", "no_code"))
          ELSE IF ~exchange
            THEN /\ UNCHANGED session
                 /\ Answered(Answer("auth_callback", state, TRUE, "none", "auth_failed"))
          ELSE /\ session' = [session EXCEPT !.youtube_credentials = "cred"]
               /\ Answered(Answer("auth_callback", state, TRUE, channel,
                             CASE channel = "found" -> "success"
                               [] channel = "no_items" -> "no_channel"
                               [] OTHER -> "auth_failed"))
    /\ UNCHANGED <<uploads, broadcasts, streams, req>>

\* GET /auth/status
auth_status ==
    /\ \E channel \in {"found", "no_items", "raises"} :
          IF check_session("auth_status")
            THEN /\ UNCHANGED session
                 /\ Answered(Answer("auth_status", None, FALSE, "none", "session_expired"))
          ELSE IF session.youtube_credentials = None
            THEN /\ UNCHANGED session
                 /\ Answered(Answer("auth_status", None, FALSE, "none", "not_authenticated"))
          ELSE IF channel = "found"
            THEN /\ UNCHANGED session
                 /\ Answered(Answer("auth_status", None, FALSE, channel, "authenticated"))
          ELSE /\ session' = [session EXCEPT !.youtube_credentials = None]
               /\ Answered(Answer("auth_status", None, FALSE, channel,
                             IF channel = "no_items" THEN "no_channel" ELSE "error"))
    /\ UNCHANGED <<uploads, broadcasts, streams, req>>

(* ----------------------- POST /start-stream ---------------------------- *)

Set(r, rec) == req' = [req EXCEPT ![r] = rec]

\* the request is answered without the try block of the handler being entered
Reject(r, rec, response) ==
    /\ Set(r, [rec EXCEPT !.pc = "done", !.response = response])
    /\ UNCHANGED uploads

\* before_request, validation and staging of the upload (app.py 63-69, 86-129)
Receive(r) ==
    /\ req[r].pc = "idle"
    /\ \E hasFile \in BOOLEAN, filename \in Filenames,
          save \in {"ok", "fail_partial", "fail_clean"} :
          LET rec == [req[r] EXCEPT !.hasFile = hasFile,
                                    !.filename = IF hasFile THEN filename ELSE <<>>,
                                    !.authed = session.youtube_credentials # None]
              path == FilePath(filename)
          IN  IF check_session("start_stream")
                THEN Reject(r, rec, Response(401, Absent, Absent, NoId))
              ELSE IF session.youtube_credentials = None
                THEN Reject(r, rec, Response(401, "false", "auth_error", NoId))
              ELSE IF ~hasFile
                THEN Reject(r, rec, Response(400, "false", "validation_error", NoId))
              ELSE IF filename = <<>>
                THEN Reject(r, rec, Response(400, "false", "validation_error", NoId))
              ELSE IF ~allowed_file(filename)
                THEN Reject(r, rec, Response(400, "false", "validation_error", NoId))
              ELSE IF save = "ok"
                THEN /\ uploads' = [uploads EXCEPT ![path] = r]
                     /\ Set(r, [rec EXCEPT !.pc = "exists", !.staged = TRUE])
              ELSE /\ uploads' = IF save = "fail_partial"
                                   THEN [uploads EXCEPT ![path] = r]
                                   ELSE uploads
                   /\ Set(r, [rec EXCEPT !.pc = "finally",
                                         !.staged = (save = "fail_partial"),
                                         !.exc = "Exception",
                                         !.response = ErrorResponse("Exception")])
    /\ UNCHANGED <<session, auth, broadcasts, streams>>

\* an exception leaves start_stream and reaches the handler's except clauses
Raised(rec, exc) ==
    [rec EXCEPT !.pc = "finally",
                !.exc = StartStreamRaise(exc),
                !.response = ErrorResponse(StartStreamRaise(exc))]

\* a variant of the cleanup that runs only when no exception was caught
CleanupExists_onsuccess(r) ==
    /\ req[r].pc = "finally"
    /\ Set(r, [req[r] EXCEPT !.pc = IF uploads[Path(r)] # 0 /\ req[r].exc = None
                                      THEN "remove" ELSE "done"])
    /\ UNCHANGED <<session, auth, uploads, broadcasts, streams>>

\* finally: if os.path.exists(filepath)
CleanupExists(r) ==
    /\ req[r].pc = "finally"
    /\ Set(r, [req[r] EXCEPT !.pc = IF uploads[Path(r)] # 0 THEN "remove" ELSE "done"])
    /\ UNCHANGED <<session, auth, uploads, broadcasts, streams>>

\* finally: os.remove(filepath); a missing file raises out of the finally
\* block into the handler's outermost except clause
CleanupRemove(r) ==
    /\ req[r].pc = "remove"
    /\ IF uploads[Path(r)] # 0
         THEN /\ uploads' = [uploads EXCEPT ![Path(r)] = 0]
              /\ Set(r, [req[r] EXCEPT !.pc = "done"])
         ELSE /\ UNCHANGED uploads
              /\ Set(r, [req[r] EXCEPT !.pc = "done",
                                       !.response = Response(500, "false", "server_error", NoId)])
    /\ UNCHANGED <<session, auth, broadcasts, streams>>

(* -------------------- YouTubeStreamer.start_stream --------------------- *)

Logged(rec, call) == [rec EXCEPT !.calls = Append(@, call)]

\* the methods class YouTubeStreamer defines
YouTubeStreamerMethods ==
    {"__init__", "get_auth_url", "get_credentials", "get_channel_info",
     "start_stream", "create_broadcast", "create_stream", "get_stream_url",
     "stream_video", "get_youtube_service"}

\* a variant that builds the service without looking at the video path
CheckVideoPath_skip(r) ==
    /\ req[r].pc = "exists"
    /\ Set(r, [req[r] EXCEPT !.pc = "build"])
    /\ UNCHANGED <<session, auth, uploads, broadcasts, streams>>

\* if not os.path.exists(video_path): raise StreamError
CheckVideoPath(r) ==
    /\ req[r].pc = "exists"
    /\ Set(r, IF uploads[Path(r)] = 0
                THEN Raised(req[r], "StreamError")
                ELSE [req[r] EXCEPT !.pc = "build"])
    /\ UNCHANGED <<session, auth, uploads, broadcasts, streams>>

\* youtube = build('youtube', 'v3', credentials=credentials)
BuildService(r) ==
    /\ req[r].pc = "build"
    /\ \E ok \in BOOLEAN :
          Set(r, IF ok THEN [req[r] EXCEPT !.pc = "insert_broadcast"]
                       ELSE Raised(req[r], "AuthenticationError"))
    /\ UNCHANGED <<session, auth, uploads, broadcasts, streams>>

\* create_broadcast: liveBroadcasts().insert(...).execute()
InsertBroadcast(r) ==
    /\ req[r].pc = "insert_broadcast"
    /\ \E ok \in BOOLEAN :
          LET id == FreshId(r, "liveBroadcasts.insert")
          IN  IF ok
                THEN /\ broadcasts' = (id :> [status |-> "created", boundTo |-> NoId])
                                         @@ broadcasts
                     /\ Set(r, [Logged(req[r], Call("liveBroadcasts.insert", id, None, TRUE))
                                  EXCEPT !.pc = "transition_testing", !.inserted_id = id])
                ELSE /\ UNCHANGED broadcasts
                     /\ Set(r, Raised(Logged(req[r],
                                   Call("liveBroadcasts.insert", NoId, None, FALSE)),
                                   "BroadcastError"))
    /\ UNCHANGED <<session, auth, uploads, streams>>

\* a variant that goes on to the live transition when the testing one raised
TransitionTesting_ignore(r) ==
    /\ req[r].pc = "transition_testing"
    /\ \E ok \in BOOLEAN :
          LET id == req[r].inserted_id
              rec == Logged(req[r], Call("liveBroadcasts.transition", id, "testing", ok))
          IN  /\ broadcasts' = IF ok THEN [broadcasts EXCEPT ![id].status = "testing"]
                                     ELSE broadcasts
              /\ Set(r, [rec EXCEPT !.pc = "transition_live"])
    /\ UNCHANGED <<session, auth, uploads, streams>>

\* create_broadcast: transition(broadcastStatus="testing", id=response["id"])
TransitionTesting(r) ==
    /\ req[r].pc = "transition_testing"
    /\ \E ok \in BOOLEAN :
          LET id == req[r].inserted_id
              rec == Logged(req[r], Call("liveBroadcasts.transition", id, "testing", ok))
          IN  IF ok
                THEN /\ broadcasts' = [broadcasts EXCEPT ![id].status = "testing"]
                     /\ Set(r, [rec EXCEPT !.pc = "transition_live"])
                ELSE /\ UNCHANGED broadcasts
                     /\ Set(r, Raised(rec, "BroadcastError"))
    /\ UNCHANGED <<session, auth, uploads, streams>>

\* a variant that deletes the inserted broadcast when the live transition raised
TransitionLive_rollback(r) ==
    /\ req[r].pc = "transition_live"
    /\ \E ok \in BOOLEAN :
          LET id == req[r].inserted_id
              rec == Logged(req[r], Call("liveBroadcasts.transition", id, "live", ok))
          IN  IF ok
                THEN /\ broadcasts' = [broadcasts EXCEPT ![id].status = "live"]
                     /\ Set(r, [rec EXCEPT !.pc = "insert_stream", !.broadcast_id = id])
                ELSE /\ broadcasts' = [broadcasts EXCEPT ![id].status = "deleted"]
                     /\ Set(r, Raised(Logged(rec, Call("liveBroadcasts.delete", id, None, TRUE)),
                                      "BroadcastError"))
    /\ UNCHANGED <<session, auth, uploads, streams>>

\* create_broadcast: transition(broadcastStatus="live", id=response["id"]),
\* then return response["id"] to start_stream
TransitionLive(r) ==
    /\ req[r].pc = "transition_live"
    /\ \E ok \in BOOLEAN :
          LET id == req[r].inserted_id
              rec == Logged(req[r], Call("liveBroadcasts.transition", id, "live", ok))
          IN  IF ok
                THEN /\ broadcasts' = [broadcasts EXCEPT ![id].status = "live"]
                     /\ Set(r, [rec EXCEPT !.pc = "insert_stream", !.broadcast_id = id])
                ELSE /\ UNCHANGED broadcasts
                     /\ Set(r, Raised(rec, "BroadcastError"))
    /\ UNCHANGED <<session, auth, uploads, streams>>

\* a variant that issues the stream insert again when it raised
InsertStream_retry(r) ==
    /\ req[r].pc = "insert_stream"
    /\ \E ok \in BOOLEAN :
          LET id == FreshId(r, "liveStreams.insert")
          IN  IF ok
                THEN /\ streams' = (id :> [status |-> "active", ingestionAddress |-> <<"rtmp", id>>])
                                      @@ streams
                     /\ Set(r, [Logged(req[r], Call("liveStreams.insert", id, None, TRUE))
                                  EXCEPT !.pc = "bind", !.stream_id = id])
                ELSE /\ UNCHANGED streams
                     /\ Set(r, [Logged(req[r], Call("liveStreams.insert", NoId, None, FALSE))
                                  EXCEPT !.pc = IF Len(req[r].calls) < 6 THEN "insert_stream"
                                                ELSE "rollback_setup"])
    /\ UNCHANGED <<session, auth, uploads, broadcasts>>

\* create_stream: liveStreams().insert(...).execute()
InsertStream(r) ==
    /\ req[r].pc = "insert_stream"
    /\ \E ok \in BOOLEAN :
          LET id == FreshId(r, "liveStreams.insert")
          IN  IF ok
                THEN /\ streams' = (id :> [status |-> "active", ingestionAddress |-> <<"rtmp", id>>])
                                      @@ streams
                     /\ Set(r, [Logged(req[r], Call("liveStreams.insert", id, None, TRUE))
                                  EXCEPT !.pc = "bind", !.stream_id = id])
                ELSE /\ UNCHANGED streams
                     /\ Set(r, [Logged(req[r], Call("liveStreams.insert", NoId, None, FALSE))
                                  EXCEPT !.pc = "rollback_setup"])
    /\ UNCHANGED <<session, auth, uploads, broadcasts>>

\* a variant that goes on to the address lookup when bind raised
BindBroadcast_ignore(r) ==
    /\ req[r].pc = "bind"
    /\ \E ok \in BOOLEAN :
          LET id == req[r].broadcast_id
              rec == Logged(req[r], Call("liveBroadcasts.bind", id, req[r].stream_id, ok))
          IN  /\ broadcasts' = IF ok THEN [broadcasts EXCEPT ![id].boundTo = req[r].stream_id]
                                     ELSE broadcasts
              /\ Set(r, [rec EXCEPT !.pc = "get_stream_url"])
    /\ UNCHANGED <<session, auth, uploads, streams>>

\* liveBroadcasts().bind(id=broadcast_id, streamId=stream_id).execute()
BindBroadcast(r) ==
    /\ req[r].pc = "bind"
    /\ \E ok \in BOOLEAN :
          LET id == req[r].broadcast_id
              rec == Logged(req[r], Call("liveBroadcasts.bind", id, req[r].stream_id, ok))
          IN  IF ok
                THEN /\ broadcasts' = [broadcasts EXCEPT ![id].boundTo = req[r].stream_id]
                     /\ Set(r, [rec EXCEPT !.pc = "get_stream_url"])
                ELSE /\ UNCHANGED broadcasts
                     /\ Set(r, [rec EXCEPT !.pc = "rollback_setup"])
    /\ UNCHANGED <<session, auth, uploads, streams>>

\* stream["items"][0]["cdn"]["ingestionInfo"]["ingestionAddress"] of the
\* listing the platform returns for stream_id
get_stream_url(remote, stream_id) == remote[stream_id].ingestionAddress

\* a variant whose platform call is not a read: it resets the ingest address
GetStreamUrl_reset(r) ==
    /\ req[r].pc = "get_stream_url"
    /\ \E listing \in {"item", "empty", "raises"} :
          LET id == req[r].stream_id
              rec == Logged(req[r], Call("liveStreams.list", id, listing, listing # "raises"))
          IN  /\ streams' = [streams EXCEPT ![id].ingestionAddress = <<"rtmp", id, "reset">>]
              /\ Set(r, IF listing = "item"
                          THEN [rec EXCEPT !.pc = "start_ffmpeg",
                                           !.stream_url = get_stream_url(streams', id)]
                          ELSE [rec EXCEPT !.pc = "rollback_setup"])
    /\ UNCHANGED <<session, auth, uploads, broadcasts>>

\* a variant that returns None for an empty item list
GetStreamUrl_nullurl(r) ==
    /\ req[r].pc = "get_stream_url"
    /\ \E listing \in {"item", "empty", "raises"} :
          LET id == req[r].stream_id
              rec == Logged(req[r], Call("liveStreams.list", id, listing, listing # "raises"))
          IN  Set(r, IF listing = "item"
                       THEN [rec EXCEPT !.pc = "start_ffmpeg", !.stream_url = get_stream_url(streams, id)]
                     ELSE IF listing = "empty"
                       THEN [rec EXCEPT !.pc = "start_ffmpeg"]
                       ELSE [rec EXCEPT !.pc = "rollback_setup"])
    /\ UNCHANGED <<session, auth, uploads, broadcasts, streams>>

\* get_stream_url: liveStreams().list(id=stream_id), then items[0] of the
\* response; an empty item list raises IndexError
GetStreamUrl(r) ==
    /\ req[r].pc = "get_stream_url"
    /\ \E listing \in {"item", "empty", "raises"} :
          LET id == req[r].stream_id
              rec == Logged(req[r], Call("liveStreams.list", id, listing, listing # "raises"))
          IN  Set(r, IF listing = "item"
                       THEN [rec EXCEPT !.pc = "start_ffmpeg", !.stream_url = get_stream_url(streams, id)]
                       ELSE [rec EXCEPT !.pc = "rollback_setup"])
    /\ UNCHANGED <<session, auth, uploads, broadcasts, streams>>

\* a variant of the cleanup that issues no delete call
RollbackSetup_nodelete(r) ==
    /\ req[r].pc = "rollback_setup"
    /\ Set(r, Raised(req[r], "StreamError"))
    /\ UNCHANGED <<session, auth, uploads, broadcasts, streams>>

\* a variant of the cleanup that lets the delete call's error escape
RollbackSetup_propagate(r) ==
    /\ req[r].pc = "rollback_setup"
    /\ \E ok \in BOOLEAN :
          LET id == req[r].broadcast_id
              rec == Logged(req[r], Call("liveBroadcasts.delete", id, None, ok))
          IN  /\ broadcasts' = IF ok THEN [broadcasts EXCEPT ![id].status = "deleted"]
                                     ELSE broadcasts
              /\ Set(r, Raised(rec, IF ok THEN "StreamError" ELSE "HttpError"))
    /\ UNCHANGED <<session, auth, uploads, streams>>

\* except Exception (stream setup): delete the broadcast, swallow the delete's
\* own error, raise StreamError
RollbackSetup(r) ==
    /\ req[r].pc = "rollback_setup"
    /\ \E ok \in BOOLEAN :
          LET id == req[r].broadcast_id
              rec == Logged(req[r], Call("liveBroadcasts.delete", id, None, ok))
          IN  /\ broadcasts' = IF ok THEN [broadcasts EXCEPT ![id].status = "deleted"]
                                     ELSE broadcasts
              /\ Set(r, Raised(rec, "StreamError"))
    /\ UNCHANGED <<session, auth, uploads, streams>>

\* the dict start_stream returns
StartStreamResult(rec) ==
    [success |-> TRUE, broadcast_url |-> BroadcastUrl(rec.broadcast_id),
     stream_url |-> rec.stream_url]

\* a variant that retries the relay start for as long as it fails
StartFfmpeg_retry(r) ==
    /\ req[r].pc = "start_ffmpeg"
    /\ \E spawnable \in BOOLEAN :
          LET rec == [req[r] EXCEPT !.spawnable = spawnable]
          IN  Set(r, IF "start_ffmpeg" \in YouTubeStreamerMethods /\ spawnable
                       THEN [rec EXCEPT !.pc = "finally", !.relay = "started",
                                        !.response = SuccessResponse(StartStreamResult(rec))]
                       ELSE [rec EXCEPT !.relay = "failed"])
    /\ UNCHANGED <<session, auth, uploads, broadcasts, streams>>

\* process = self.start_ffmpeg(video_path, stream_url): the attribute lookup
\* raises AttributeError when the class defines no such method, whether or not
\* the relay program could be spawned
StartFfmpeg(r) ==
    /\ req[r].pc = "start_ffmpeg"
    /\ \E spawnable \in BOOLEAN :
          LET rec == [req[r] EXCEPT !.spawnable = spawnable]
          IN  Set(r, IF "start_ffmpeg" \in YouTubeStreamerMethods /\ spawnable
                       THEN [rec EXCEPT !.pc = "finally", !.relay = "started",
                                        !.response = SuccessResponse(StartStreamResult(rec))]
                       ELSE [rec EXCEPT !.pc = "rollback_ffmpeg_broadcast",
                                        !.relay = "failed"])
    /\ UNCHANGED <<session, auth, uploads, broadcasts, streams>>

\* a variant of the cleanup that deletes the stream only
RollbackFfmpegBroadcast_skip(r) ==
    /\ req[r].pc = "rollback_ffmpeg_broadcast"
    /\ Set(r, [req[r] EXCEPT !.pc = "rollback_ffmpeg_stream"])
    /\ UNCHANGED <<session, auth, uploads, broadcasts, streams>>

\* except Exception (FFmpeg): liveBroadcasts().delete(id=broadcast_id); when it
\* raises, the stream delete that follows it in the same try is skipped
RollbackFfmpegBroadcast(r) ==
    /\ req[r].pc = "rollback_ffmpeg_broadcast"
    /\ \E ok \in BOOLEAN :
          LET id == req[r].broadcast_id
              rec == Logged(req[r], Call("liveBroadcasts.delete", id, None, ok))
          IN  IF ok
                THEN /\ broadcasts' = [broadcasts EXCEPT ![id].status = "deleted"]
                     /\ Set(r, [rec EXCEPT !.pc = "rollback_ffmpeg_stream"])
                ELSE /\ UNCHANGED broadcasts
                     /\ Set(r, Raised(rec, "FFmpegError"))
    /\ UNCHANGED <<session, auth, uploads, streams>>

\* except Exception (FFmpeg): liveStreams().delete(id=stream_id), then
\* raise FFmpegError
RollbackFfmpegStream(r) ==
    /\ req[r].pc = "rollback_ffmpeg_stream"
    /\ \E ok \in BOOLEAN :
          LET id == req[r].stream_id
              rec == Logged(req[r], Call("liveStreams.delete", id, None, ok))
          IN  /\ streams' = IF ok THEN [streams EXCEPT ![id].status = "deleted"] ELSE streams
              /\ Set(r, Raised(rec, "FFmpegError"))
    /\ UNCHANGED <<session, auth, uploads, broadcasts>>

(* --------------------------- specification ----------------------------- *)

Next ==
    \/ youtube_auth
    \/ auth_callback
    \/ auth_status
    \/ \E r \in Requests :
          \/ Receive(r)
          \/ CheckVideoPath(r)
          \/ BuildService(r)
          \/ InsertBroadcast(r)
          \/ TransitionTesting(r)
          \/ TransitionLive(r)
          \/ InsertStream(r)
          \/ BindBroadcast(r)
          \/ GetStreamUrl(r)
          \/ RollbackSetup(r)
          \/ StartFfmpeg(r)
          \/ RollbackFfmpegBroadcast(r)
          \/ RollbackFfmpegStream(r)
          \/ CleanupExists(r)
          \/ CleanupRemove(r)

Spec == Init /\ [][Next]_vars

\* the requests of the session whose /auth/* answers are recorded
AuthRequests == {1}

NextAuth ==
    \/ youtube_auth
    \/ auth_callback
    \/ auth_status
    \/ \E r \in AuthRequests :
          \/ Receive(r)
          \/ CheckVideoPath(r)
          \/ BuildService(r)
          \/ InsertBroadcast(r)
          \/ TransitionTesting(r)
          \/ TransitionLive(r)
          \/ InsertStream(r)
          \/ BindBroadcast(r)
          \/ GetStreamUrl(r)
          \/ RollbackSetup(r)
          \/ StartFfmpeg(r)
          \/ RollbackFfmpegBroadcast(r)
          \/ RollbackFfmpegStream(r)
          \/ CleanupExists(r)
          \/ CleanupRemove(r)

\* one session that signs in and out and sends one /start-stream request
SpecAuth == InitAuth /\ [][NextAuth]_vars

\* one step of YouTubeStreamer.start_stream for request r
StartStreamStep(r) ==
    \/ CheckVideoPath(r)
    \/ BuildService(r)
    \/ InsertBroadcast(r)
    \/ TransitionTesting(r)
    \/ TransitionLive(r)
    \/ InsertStream(r)
    \/ BindBroadcast(r)
    \/ GetStreamUrl(r)
    \/ RollbackSetup(r)
    \/ StartFfmpeg(r)
    \/ RollbackFfmpegBroadcast(r)
    \/ RollbackFfmpegStream(r)

\* one session and its /start-stream request, served by a worker that runs
\* start_stream statement after statement, every remote call returning or
\* raising
SpecLive ==
    /\ Init
    /\ [][NextAuth]_vars
    /\ \A r \in AuthRequests : WF_vars(StartStreamStep(r))

TypeOK ==
    /\ session.youtube_credentials \in {None, "cred"}
    /\ session.oauth_state \in States \cup {None}
    /\ \A p \in Paths : uploads[p] \in Requests \cup {0}
    /\ \A r \in Requests : req[r].response.status \in {0, 200, 400, 401, 500}

(* ------------------------- claim vocabulary --------------------------- *)

Done(r) == req[r].pc = "done"

\* start_stream was entered and has returned or raised
Ended(r) == req[r].pc \in {"finally", "remove", "done"} /\ req[r].calls # <<>>

CallsOf(r, api) == {i \in 1..Len(req[r].calls) : req[r].calls[i].api = api}

Issued(r, api, id) == \E i \in CallsOf(r, api) : req[r].calls[i].id = id

Failed(r, api) == \E i \in CallsOf(r, api) : ~req[r].calls[i].ok

Succeeded(r, api) == \E i \in CallsOf(r, api) : req[r].calls[i].ok

TransitionFailed(r, status) ==
    \E i \in CallsOf(r, "liveBroadcasts.transition") :
        req[r].calls[i].arg = status /\ ~req[r].calls[i].ok

\* the id the platform returned for the broadcast insert of request r
InsertedBroadcast(r) ==
    LET i == CHOOSE i \in CallsOf(r, "liveBroadcasts.insert") : req[r].calls[i].ok
    IN  req[r].calls[i].id

\* the id the platform returned for the stream insert of request r
InsertedStream(r) ==
    LET i == CHOOSE i \in CallsOf(r, "liveStreams.insert") : req[r].calls[i].ok
    IN  req[r].calls[i].id

\* the ingest address was found: every call before the relay start succeeded
SetupSucceeded(r) ==
    \E i \in CallsOf(r, "liveStreams.list") : req[r].calls[i].arg = "item"

DeleteFailed(r) ==
    Failed(r, "liveBroadcasts.delete") \/ Failed(r, "liveStreams.delete")

LiveBroadcastOf(r) ==
    \E id \in DOMAIN broadcasts : id[1] = r /\ broadcasts[id].status = "live"

\* the file name ends, case-insensitively, in one of the allowed extensions
EndsInAllowed(filename) ==
    \E e \in ALLOWED_EXTENSIONS :
        /\ Len(filename) >= Len(e)
        /\ Lower(SubSeq(filename, Len(filename) - Len(e) + 1, Len(filename))) = e

(* ------------------------------ claims -------------------------------- *)

\* C1: when create_broadcast succeeded and create_stream then fails,
\* liveBroadcasts.delete is called exactly once, with the id the broadcast
\* insert returned, and start_stream raises StreamError.
C1_StreamInsertFailureRollsBack ==
    \A r \in Requests :
        (Ended(r) /\ Failed(r, "liveStreams.insert")) =>
            /\ Cardinality(CallsOf(r, "liveBroadcasts.delete")) = 1
            /\ Issued(r, "liveBroadcasts.delete", InsertedBroadcast(r))
            /\ req[r].exc = "StreamError"

C1_Witness ==
    \E r \in Requests :
        /\ Done(r)
        /\ Failed(r, "liveStreams.insert")
        /\ Succeeded(r, "liveBroadcasts.delete")
        /\ req[r].exc = "StreamError"

\* C2 (as stated): when the broadcast insert succeeds and the live transition
\* fails, a delete is issued for the inserted broadcast, the response carries
\* error_type broadcast_error and the uploaded file is removed.
C2_LiveTransitionFailureDeletes ==
    \A r \in Requests :
        (Done(r) /\ TransitionFailed(r, "live")) =>
            /\ Issued(r, "liveBroadcasts.delete", InsertedBroadcast(r))
            /\ req[r].response.error_type = "broadcast_error"
            /\ uploads[Path(r)] # r

\* C3 (as stated): when the stream was created and bind or the ingest-address
\* lookup then fails, a delete is issued for both the broadcast and the stream.
C3_SetupFailureDeletesBoth ==
    \A r \in Requests :
        (Ended(r) /\ Succeeded(r, "liveStreams.insert")
                  /\ req[r].relay = "not_attempted") =>
            /\ Issued(r, "liveBroadcasts.delete", InsertedBroadcast(r))
            /\ Issued(r, "liveStreams.delete", InsertedStream(r))

\* C4 (as stated): when the relay start fails after bind succeeded, both the
\* broadcast delete and the stream delete are issued, whatever the other
\* delete's outcome, and FFmpegError is raised.
C4_RelayFailureDeletesBoth ==
    \A r \in Requests :
        (Ended(r) /\ req[r].relay = "failed") =>
            /\ Issued(r, "liveBroadcasts.delete", InsertedBroadcast(r))
            /\ Issued(r, "liveStreams.delete", InsertedStream(r))
            /\ req[r].exc = "FFmpegError"

\* C5: a rollback delete that raises is never propagated: the caller gets
\* StreamError when stream setup failed and FFmpegError when the relay start
\* failed.
C5_RollbackErrorSwallowed ==
    \A r \in Requests :
        (Ended(r) /\ DeleteFailed(r)) =>
            /\ req[r].relay = "not_attempted" => req[r].exc = "StreamError"
            /\ req[r].relay = "failed" => req[r].exc = "FFmpegError"
            /\ req[r].relay # "started"

C5_Witness ==
    \E r1, r2 \in Requests :
        /\ Done(r1) /\ Failed(r1, "liveBroadcasts.delete")
        /\ req[r1].relay = "not_attempted" /\ req[r1].exc = "StreamError"
        /\ Done(r2) /\ Failed(r2, "liveStreams.delete")
        /\ req[r2].relay = "failed" /\ req[r2].exc = "FFmpegError"

\* C6: when every rollback delete succeeded, a broadcast of this call is live
\* after the call has ended only if the call returned success with a relay
\* launched.
C6_NoOrphanedLiveBroadcast ==
    \A r \in Requests :
        (Ended(r) /\ ~DeleteFailed(r) /\ LiveBroadcastOf(r)) =>
            /\ req[r].response.success = "true"
            /\ req[r].relay = "started"

C6_Witness ==
    \E r \in Requests :
        /\ Done(r)
        /\ req[r].relay = "failed"
        /\ req[r].response.success = "false"
        /\ ~DeleteFailed(r)
        /\ broadcasts[req[r].broadcast_id].status = "deleted"

\* C7 (as stated): when broadcast creation, stream creation, bind and the
\* ingest-address lookup all succeed and the relay can be spawned, the call
\* returns success with broadcast_url https://youtube.com/watch?v=<id>, the
\* broadcast live and bound to the stream and a relay launched.
C7_HappyPathGoesLive ==
    \A r \in Requests :
        (Ended(r) /\ SetupSucceeded(r) /\ req[r].spawnable) =>
            /\ req[r].response.success = "true"
            /\ req[r].response.broadcast_url = BroadcastUrl(InsertedBroadcast(r))
            /\ req[r].relay = "started"
            /\ broadcasts[InsertedBroadcast(r)].status = "live"
            /\ broadcasts[InsertedBroadcast(r)].boundTo = InsertedStream(r)

\* C8: an authenticated request whose file name does not end in mp4, avi, mkv
\* or mov (case-insensitively) is answered 400 with error_type
\* validation_error; it stages no file and makes no remote call.
C8_DisallowedExtensionRejected ==
    \A r \in Requests :
        (req[r].pc # "idle" /\ req[r].authed /\ ~EndsInAllowed(req[r].filename)) =>
            /\ Done(r)
            /\ req[r].response.status = 400
            /\ req[r].response.error_type = "validation_error"
            /\ req[r].calls = <<>>
            /\ ~req[r].staged
            /\ uploads[Path(r)] # r

C8_Witness ==
    \E r \in Requests :
        /\ Done(r) /\ req[r].authed /\ req[r].hasFile
        /\ req[r].filename = <<"a",".","m","p","4",".","e","x","e">>
        /\ req[r].response.status = 400

\* C9 (as stated): a request from a session with no stored credential is
\* answered 401 with error_type auth_error and makes no remote call.
C9_UnauthenticatedIsAuthError ==
    \A r \in Requests :
        (Done(r) /\ ~req[r].authed) =>
            /\ req[r].response.status = 401
            /\ req[r].response.error_type = "auth_error"
            /\ req[r].calls = <<>>

\* C10: at the step that resolves a request which staged its upload, the
\* staged file's path no longer exists in the upload folder, whatever the
\* outcome of the request.
C10_StagedFileRemoved ==
    [][\A r \in Requests :
          (req[r].pc # "done" /\ req'[r].pc = "done" /\ req'[r].staged) =>
              uploads'[FilePath(req'[r].filename)] = 0]_vars

C10_Witness ==
    \E r1, r2 \in Requests :
        /\ Done(r1) /\ req[r1].staged /\ req[r1].exc = "FFmpegError"
        /\ Done(r2) /\ req[r2].staged /\ req[r2].exc = "Exception"
        /\ \A p \in Paths : uploads[p] = 0

\* the error_type tags the /start-stream interface documents
DocumentedErrorTypes ==
    {"validation_error", "auth_error", "broadcast_error", "stream_error",
     "relay_error", "unknown_error"}

\* C11 (as stated): every error response of POST /start-stream (400, 401 or
\* 500) carries an error_type, and it is one of the documented tags.
C11_ErrorTypeDocumented ==
    \A r \in Requests :
        (Done(r) /\ req[r].response.status \in {400, 401, 500}) =>
            req[r].response.error_type \in DocumentedErrorTypes

\* request r has staged its upload and start_stream has not yet ended
InUse(r) ==
    /\ req[r].staged
    /\ req[r].pc \notin {"idle", "finally", "remove", "done"}

\* C14 (as stated): while a request is still using its staged upload, no
\* other request overwrites or deletes that file.
C14_StagedFileNotShared ==
    \A r \in Requests : InUse(r) => uploads[Path(r)] = r

\* call i of request r is a successful call of api on id
OkCall(r, i, api, id) ==
    /\ req[r].calls[i].api = api
    /\ req[r].calls[i].id = id
    /\ req[r].calls[i].ok

\* call i of request r is a successful transition of id to status
OkTransition(r, i, id, status) ==
    /\ OkCall(r, i, "liveBroadcasts.transition", id)
    /\ req[r].calls[i].arg = status

\* C16: the transitions are requested in the order testing, live for the
\* inserted broadcast: testing only after the insert succeeded, live only
\* after the insert and the testing transition of the same id succeeded, and
\* create_broadcast returns the id only after the live transition succeeded.
C16_TransitionsInOrder ==
    \A r \in Requests :
        /\ \A i \in CallsOf(r, "liveBroadcasts.transition") :
              LET id == req[r].calls[i].id
              IN  /\ req[r].calls[i].arg \in {"testing", "live"}
                  /\ \E j \in 1..(i-1) : OkCall(r, j, "liveBroadcasts.insert", id)
                  /\ req[r].calls[i].arg = "live" =>
                        \E j \in 1..(i-1), k \in 1..(i-1) :
                            /\ j < k
                            /\ OkCall(r, j, "liveBroadcasts.insert", id)
                            /\ OkTransition(r, k, id, "testing")
        /\ req[r].broadcast_id # NoId =>
              \E k \in 1..Len(req[r].calls), i \in 1..Len(req[r].calls) :
                  /\ k < i
                  /\ OkTransition(r, k, req[r].broadcast_id, "testing")
                  /\ OkTransition(r, i, req[r].broadcast_id, "live")

C16_Witness ==
    \E r \in Requests :
        /\ Done(r)
        /\ req[r].broadcast_id # NoId
        /\ \E i \in 1..Len(req[r].calls) : OkTransition(r, i, req[r].broadcast_id, "live")

\* C17: the stages are entered in order: the stream insert is issued only
\* after create_broadcast succeeded, bind only with both ids in hand, and the
\* relay start is attempted only after bind and the address lookup succeeded.
C17_StagesInOrder ==
    \A r \in Requests :
        /\ \A i \in CallsOf(r, "liveStreams.insert") :
              \E j \in 1..(i-1) : OkTransition(r, j, req[r].broadcast_id, "live")
        /\ \A i \in CallsOf(r, "liveBroadcasts.bind") :
              \E j \in 1..(i-1), k \in 1..(i-1) :
                  /\ j < k
                  /\ OkTransition(r, j, req[r].calls[i].id, "live")
                  /\ OkCall(r, k, "liveStreams.insert", req[r].calls[i].arg)
        /\ \A i \in CallsOf(r, "liveStreams.list") :
              \E j \in 1..(i-1) :
                  /\ OkCall(r, j, "liveBroadcasts.bind", InsertedBroadcast(r))
                  /\ req[r].calls[j].arg = req[r].calls[i].id
        /\ req[r].relay # "not_attempted" =>
              \E j \in 1..Len(req[r].calls), k \in 1..Len(req[r].calls) :
                  /\ j < k
                  /\ OkCall(r, j, "liveBroadcasts.bind", InsertedBroadcast(r))
                  /\ OkCall(r, k, "liveStreams.list", InsertedStream(r))
                  /\ req[r].calls[k].arg = "item"

C17_Witness ==
    \E r \in Requests :
        /\ req[r].relay # "not_attempted"
        /\ Succeeded(r, "liveBroadcasts.bind")
        /\ SetupSucceeded(r)

\* create_broadcast raised: the insert or one of the two transitions failed
CreateBroadcastFailed(r) ==
    \/ Failed(r, "liveBroadcasts.insert")
    \/ TransitionFailed(r, "testing")
    \/ TransitionFailed(r, "live")

\* C18: when create_broadcast fails, start_stream ends at once with
\* BroadcastError: no delete, no stream insert, no bind and no relay start.
C18_BroadcastFailureNoRollback ==
    \A r \in Requests :
        CreateBroadcastFailed(r) =>
            /\ Ended(r)
            /\ req[r].exc = "BroadcastError"
            /\ CallsOf(r, "liveBroadcasts.delete") = {}
            /\ CallsOf(r, "liveStreams.delete") = {}
            /\ CallsOf(r, "liveStreams.insert") = {}
            /\ CallsOf(r, "liveBroadcasts.bind") = {}
            /\ req[r].relay = "not_attempted"

C18_Witness ==
    \E r1, r2 \in Requests :
        /\ Done(r1) /\ TransitionFailed(r1, "live") /\ req[r1].exc = "BroadcastError"
        /\ Done(r2) /\ Failed(r2, "liveBroadcasts.insert") /\ req[r2].exc = "BroadcastError"

\* the stream listing came back with an empty item list
ListedEmpty(r) ==
    \E i \in CallsOf(r, "liveStreams.list") : req[r].calls[i].arg = "empty"

\* C19: when the stream listing has no items, start_stream rolls the
\* broadcast back and raises StreamError, and the relay is never started
\* without an ingest URL.
C19_EmptyListingIsStreamError ==
    \A r \in Requests :
        /\ (ListedEmpty(r) /\ Ended(r)) =>
              /\ req[r].exc = "StreamError"
              /\ Issued(r, "liveBroadcasts.delete", InsertedBroadcast(r))
        /\ ListedEmpty(r) => req[r].relay = "not_attempted"
        /\ req[r].relay # "not_attempted" => req[r].stream_url # NoId

C19_Witness ==
    \E r \in Requests :
        /\ Done(r)
        /\ ListedEmpty(r)
        /\ Succeeded(r, "liveBroadcasts.delete")
        /\ req[r].exc = "StreamError"

\* C20: one start_stream call issues at most one broadcast insert and at most
\* one stream insert, and so creates at most one broadcast and one stream.
C20_AtMostOneInsert ==
    \A r \in Requests :
        /\ Cardinality(CallsOf(r, "liveBroadcasts.insert")) <= 1
        /\ Cardinality(CallsOf(r, "liveStreams.insert")) <= 1
        /\ Cardinality({id \in DOMAIN broadcasts : id[1] = r}) <= 1
        /\ Cardinality({id \in DOMAIN streams : id[1] = r}) <= 1

C20_Witness ==
    \E r \in Requests :
        /\ Done(r)
        /\ Succeeded(r, "liveBroadcasts.insert")
        /\ Failed(r, "liveStreams.insert")
        /\ Cardinality({id \in DOMAIN broadcasts : id[1] = r}) = 1

CallbackStep == auth' # auth /\ auth'.endpoint = "auth_callback"

\* C12 (as stated): a callback exchanges the code and stores a credential
\* only when its state parameter equals a token that /auth/youtube generated
\* and stored in the session; a callback with a mismatching state exchanges
\* nothing and stores nothing.
C12_CredentialOnlyForGeneratedState ==
    [][CallbackStep =>
          /\ (auth'.exchanged \/ session' # session) =>
                /\ session.oauth_state \in States
                /\ auth'.state = session.oauth_state
          /\ auth'.state # session.oauth_state =>
                /\ ~auth'.exchanged
                /\ session' = session]_vars

\* C13 (as stated): once the channel query of /auth/status or /auth/callback
\* returned an empty item list, the session holds no credential and a
\* following POST /start-stream is rejected as unauthenticated.
C13_NoChannelClearsCredential ==
    auth.channel = "no_items" =>
        /\ session.youtube_credentials = None
        /\ check_session("start_stream")

\* the positions of a request inside YouTubeStreamer.start_stream
StartStreamPcs ==
    {"exists", "build", "insert_broadcast", "transition_testing",
     "transition_live", "insert_stream", "bind", "get_stream_url",
     "rollback_setup", "start_ffmpeg", "rollback_ffmpeg_broadcast",
     "rollback_ffmpeg_stream"}

\* terminal state Live: start_stream returned its success result
Live(r) ==
    /\ req[r].pc \notin StartStreamPcs
    /\ req[r].relay = "started"
    /\ req[r].response.success = "true"

\* terminal state Failed: start_stream raised an error of the
\* YouTubeStreamError family
FailedCall(r) ==
    /\ req[r].pc \notin StartStreamPcs
    /\ req[r].relay # "started"
    /\ req[r].exc \in YouTubeStreamErrors

\* C21: every start_stream call eventually reaches Live (a success result is
\* returned) or Failed (an error of the YouTubeStreamError family is raised),
\* whichever remote call or rollback call fails; it never stays in an
\* intermediate state.
C21_StartStreamTerminates ==
    \A r \in Requests :
        (req[r].pc \in StartStreamPcs) ~> (Live(r) \/ FailedCall(r))

C21_Witness ==
    \E r \in Requests :
        /\ FailedCall(r)
        /\ req[r].relay = "failed"
        /\ Failed(r, "liveBroadcasts.delete")
        /\ req[r].exc = "FFmpegError"

\* the 401 answer of the before_request hook
SessionExpired == Response(401, Absent, Absent, NoId)

\* the answer of the /start-stream handler's own "not authenticated" branch:
\* 401 auth_error with no exception caught
HandlerNotAuthenticated(r) ==
    /\ req[r].response = Response(401, "false", "auth_error", NoId)
    /\ req[r].exc = None

\* the step runs the handler body of /start-stream for request r
StartStreamHandlerStep(r) ==
    /\ req[r].pc = "idle"
    /\ req'[r].pc # "idle"
    /\ req'[r].response # SessionExpired

\* the step runs the handler body of /auth/status
AuthStatusHandlerStep ==
    /\ auth' # auth
    /\ auth'.endpoint = "auth_status"
    /\ auth'.result # "session_expired"

\* C22: the handler bodies of /start-stream and /auth/status run only for a
\* session that holds a stored credential: a request without one is answered
\* 401 by check_session, so the handlers' own "not authenticated" branches
\* are never reached.
C22_HandlersRunAuthenticated ==
    /\ [](/\ auth.result # "not_authenticated"
          /\ \A r \in Requests :
                /\ ~HandlerNotAuthenticated(r)
                /\ (req[r].pc # "idle" /\ ~req[r].authed) =>
                      (Done(r) /\ req[r].response = SessionExpired))
    /\ [][/\ AuthStatusHandlerStep => session.youtube_credentials # None
          /\ \A r \in Requests :
                StartStreamHandlerStep(r) => session.youtube_credentials # None]_vars

C22_Witness ==
    \E r \in Requests :
        /\ Done(r) /\ ~req[r].authed /\ req[r].response = SessionExpired
        /\ auth.endpoint = "auth_status" /\ auth.result = "session_expired"

\* the step on which start_stream of request r looks at a video path that
\* does not exist
MissingPathStep(r) ==
    /\ req[r].pc = "exists"
    /\ req'[r].pc # "exists"
    /\ uploads[Path(r)] = 0

\* start_stream of request r raised on the path check: StreamError with no
\* remote call issued
PathCheckFailed(r) ==
    /\ req[r].exc = "StreamError"
    /\ req[r].calls = <<>>

\* C23: when the video path does not exist, start_stream fails with
\* StreamError before the platform service is built: it creates no broadcast
\* and no stream and issues no delete and no relay start.
C23_MissingPathFailsFirst ==
    /\ [][\A r \in Requests :
            MissingPathStep(r) =>
                /\ req'[r].pc = "finally"
                /\ PathCheckFailed(r)'
                /\ broadcasts' = broadcasts
                /\ streams' = streams]_vars
    /\ [](\A r \in Requests :
            PathCheckFailed(r) =>
                /\ req[r].pc \in {"finally", "remove", "done"}
                /\ req[r].relay = "not_attempted"
                /\ \A id \in DOMAIN broadcasts \cup DOMAIN streams : id[1] # r)

C23_Witness ==
    \E r \in Requests :
        /\ Done(r)
        /\ req[r].staged
        /\ PathCheckFailed(r)
        /\ req[r].response.error_type = "stream_error"

====
